---- MODULE Spec2Model ----
(***************************************************************************)
(* adm1166_eeprom.c: Intel-HEX parser (parse_ihex) and the ADM1166 EEPROM  *)
(* page programming loop (main, program_chunk, adm_eeprom_read/erase/      *)
(* write).                                                                 *)
(*                                                                         *)
(* Specifications over one set of variables:                               *)
(*   SpecParse - parse_ihex run on a byte stream, one action per iteration *)
(*               of its while loop (one switch case); SpecParseFair is the *)
(*               same loop kept running, on the shorter streams;           *)
(*   SpecMain  - main() from its first line to its return.  The call of    *)
(*               parse_ihex is taken at its interface (return value and    *)
(*               record list), the device and the kernel are the           *)
(*               environment.                                              *)
(* Characters are their ASCII codes, bytes are 0..255.                     *)
(***************************************************************************)
EXTENDS Integers, Sequences, FiniteSets, TLC

VARIABLES
    \* ---- parse_ihex ----
    gen,        \* how the input stream was built (test harness, not program state)
    input,      \* the bytes behind fd
    pos,        \* file offset of fd: bytes consumed so far
    state,      \* enum state
    chunk,      \* struct ihex_chunk *chunk (NULL or the record in progress)
    file,       \* struct ihex_file: the list first..last, in order
    returned,   \* parse_ihex has returned
    pret,       \* the return value of parse_ihex (meaningful once returned)
    heap        \* the buffers malloc handed out and where each one is now

VARIABLES
    \* ---- main ----
    pc,         \* position in main / program_chunk
    fdtab,      \* the process's descriptor table: what each number refers to
    fd,         \* int fd (the hex file)
    i2c_fd,     \* int i2c_fd
    ihex_file,  \* struct ihex_file ihex_file, as parse_ihex left it (see Image)
    cur,        \* struct ihex_chunk *chunk of main: index in ihex_file, 0 is NULL
    addr,       \* unsigned int addr
    retry,      \* unsigned int retry
    ret,        \* int ret
    errno,      \* errno
    rbuf,       \* program_chunk: unsigned char rbuf[ADM_PAGE_SIZE]
    wbuf,       \* program_chunk: unsigned char wbuf[ADM_PAGE_SIZE]
    exitCode,   \* the process exit status, -1 while it runs
    report,     \* which closing message was printed
    \* ---- observation of the bus (history, never read by the program) ----
    regLog,     \* the register writes of main, in order, with their target
    ops,        \* the device operations and delays of the attempt in progress
    cnt,        \* operations issued for the page in progress
    hist,       \* outcome of each attempt on the page in progress
    touched,    \* addresses of the pages a device operation was issued for
    lastOp,     \* the last device operation: its kind, page, transfers and result
    pageLog     \* pages the loop is done with: ended in success, failed three times

pvars == <<gen, input, pos, state, chunk, file, returned, pret, heap>>

mvars == <<pc, fdtab, fd, i2c_fd, ihex_file, cur, addr, retry, ret, errno, rbuf, wbuf,
           exitCode, report, regLog, ops, cnt, hist, touched, lastOp, pageLog>>

vars == <<pvars, mvars>>

(***************************************************************************)
(* Bounds of the input family.                                             *)
(***************************************************************************)
MaxRecs == 2

\* data lines of the streams whose parse is followed to its end
MaxFairRecs == 1

\* records in a list handed to main
MaxRecords == 130

\* highest descriptor number of the table
MaxFd == 5

(***************************************************************************)
(* struct ihex_chunk                                                       *)
(***************************************************************************)
NULL == [alloc |-> FALSE, addr |-> 0, len |-> 0, checksum |-> 0, data |-> <<>>]

Chunk(a, l, c, d) == [alloc |-> TRUE, addr |-> a, len |-> l, checksum |-> c, data |-> d]

\* the name of a record list handed to main: see RecAddr, RecLen, RecData
Image(n, pat, defect, k) == [n |-> n, pat |-> pat, defect |-> defect, k |-> k]

\* malloc(sizeof(*chunk) + tmp); memset(chunk, 0, ...); chunk->len = tmp
NewChunk(tmp) == Chunk(0, tmp % 256, 0, [j \in 1..tmp |-> 0])

(***************************************************************************)
(* The heap as parse_ihex uses it.  Buffers are numbered in the order      *)
(* malloc hands them out; `cur` is the buffer `chunk` points to (0: NULL), *)
(* `stored` the buffers linked into the list, in order, `freed` the ones   *)
(* given to free, `lost` the ones whose only pointer was overwritten.      *)
(* malloc is taken to succeed.                                             *)
(***************************************************************************)
NoHeap == [next |-> 0, cur |-> 0, stored |-> <<>>, freed |-> {}, lost |-> {}]

InList(h, b) == \E i \in 1..Len(h.stored) : h.stored[i] = b

\* chunk = malloc(...)
Malloc(h) ==
    [h EXCEPT !.next = @ + 1,
              !.cur = h.next + 1,
              !.lost = IF h.cur # 0 /\ ~InList(h, h.cur) /\ h.cur \notin h.freed
                       THEN @ \cup {h.cur} ELSE @]

\* file->last->next = chunk (or file->first = chunk); file->last = chunk; chunk = NULL
Link(h) == [h EXCEPT !.stored = Append(@, h.cur), !.cur = 0]

Free_leak(h) == [h EXCEPT !.cur = 0]

\* free(chunk) on the way out
Free(h) == [h EXCEPT !.freed = @ \cup {h.cur}, !.cur = 0]

(***************************************************************************)
(* get_token: one byte of the stream, -1 when read() returns <= 0.         *)
(***************************************************************************)
get_token(inp, p) ==
    IF p >= Len(inp) THEN [c |-> -1, pos |-> p]
    ELSE [c |-> inp[p + 1], pos |-> p + 1]

(***************************************************************************)
(* get_hex_token: len hex digits, most significant first.  val is an       *)
(* unsigned int; len <= 4 at every call so val < 2^16 and the shift never  *)
(* overflows.  `val |= d` after `val <<= 4` adds d (the low nibble is 0).  *)
(***************************************************************************)
IsDigit(c) == c >= 48 /\ c <= 57

IsUpperHex(c) == c >= 65 /\ c <= 70

HexDigit_lower(c) ==
    IF IsDigit(c) THEN c - 48
    ELSE IF IsUpperHex(c) THEN c - 65 + 10
    ELSE IF c >= 97 /\ c <= 102 THEN c - 97 + 10
    ELSE -1

\* the value of one digit character, -1 for "Unexpected character"
HexDigit(c) ==
    IF IsDigit(c) THEN c - 48
    ELSE IF IsUpperHex(c) THEN c - 65 + 10
    ELSE -1

RECURSIVE get_hex_loop(_, _, _, _, _)
get_hex_loop(inp, p, len, i, val) ==
    IF i >= len THEN [ret |-> 0, val |-> val, pos |-> p]
    ELSE LET t == get_token(inp, p) IN
         IF t.c < 0 THEN [ret |-> t.c, val |-> val, pos |-> t.pos]
         ELSE LET d == HexDigit(t.c) IN
              IF d < 0 THEN [ret |-> -1, val |-> val * 16, pos |-> t.pos]
              ELSE get_hex_loop(inp, t.pos, len, i + 1, val * 16 + d)

get_hex_token(inp, p, len) == get_hex_loop(inp, p, len, 0, 0)

(***************************************************************************)
(* The for loop of STATE_DATA: chunk->len digit pairs into chunk->data.    *)
(* The token h of an iteration is bound through a one-element set, which   *)
(* has it evaluated once per iteration.                                    *)
(***************************************************************************)
RECURSIVE read_data(_, _, _, _, _)
read_data(inp, p, len, i, data) ==
    IF i >= len THEN [ret |-> 0, data |-> data, pos |-> p]
    ELSE CHOOSE out \in
            { IF h.ret < 0 THEN [ret |-> h.ret, data |-> data, pos |-> h.pos]
              ELSE read_data(inp, h.pos, len, i + 1, [data EXCEPT ![i + 1] = h.val % 256])
              : h \in {get_hex_token(inp, p, 2)} } : TRUE

(***************************************************************************)
(* parse_ihex: one action per case of the switch.                          *)
(***************************************************************************)
Running == ~returned /\ state # "ERROR" /\ state # "DONE"

IsSpace_eof(c) == c = 10 \/ c = 13 \/ c = 9 \/ c = 32 \/ c < 0

IsSpace(c) == c = 10 \/ c = 13 \/ c = 9 \/ c = 32

ParseStartOfLine ==
    /\ UNCHANGED mvars
    /\ Running /\ state = "START_OF_LINE"
    /\ LET t == get_token(input, pos) IN
        /\ pos' = t.pos
        /\ state' = IF IsSpace(t.c) THEN "START_OF_LINE"
                    ELSE IF t.c = 58 THEN "LINE_LENGTH"
                    ELSE "ERROR"
    /\ UNCHANGED <<heap, gen, input, chunk, file, returned, pret>>

ParseLineLength ==
    /\ UNCHANGED mvars
    /\ Running /\ state = "LINE_LENGTH"
    /\ LET h == get_hex_token(input, pos, 2) IN
        /\ pos' = h.pos
        /\ IF h.ret < 0
           THEN state' = "ERROR" /\ chunk' = chunk /\ heap' = heap
           ELSE state' = "ADDRESS" /\ chunk' = NewChunk(h.val) /\ heap' = Malloc(heap)
    /\ UNCHANGED <<gen, input, file, returned, pret>>

ParseAddress ==
    /\ UNCHANGED mvars
    /\ Running /\ state = "ADDRESS"
    /\ LET h == get_hex_token(input, pos, 4) IN
        /\ pos' = h.pos
        /\ IF h.ret < 0
           THEN state' = "ERROR" /\ chunk' = chunk
           ELSE state' = "TYPE" /\ chunk' = [chunk EXCEPT !.addr = h.val % 65536]
    /\ UNCHANGED <<heap, gen, input, file, returned, pret>>

TypeNext_strict(r, tmp) ==
    IF r < 0 THEN "ERROR"
    ELSE IF tmp = 0 THEN "DATA"
    ELSE IF tmp = 1 THEN "END_OF_FILE"
    ELSE "ERROR"

\* the state reached from STATE_TYPE for the decoded type digits
TypeNext(r, tmp) ==
    IF r < 0 THEN "ERROR"
    ELSE IF tmp = 0 THEN "DATA"
    ELSE IF tmp = 1 THEN "END_OF_FILE"
    ELSE "TYPE"

ParseType ==
    /\ UNCHANGED mvars
    /\ Running /\ state = "TYPE"
    /\ LET h == get_hex_token(input, pos, 2) IN
        /\ pos' = h.pos
        /\ state' = TypeNext(h.ret, h.val)
    /\ UNCHANGED <<heap, gen, input, chunk, file, returned, pret>>

ParseData_commit ==
    /\ UNCHANGED mvars
    /\ Running /\ state = "DATA"
    /\ LET r == read_data(input, pos, chunk.len, 0, chunk.data) IN
        /\ pos' = r.pos
        /\ chunk' = [chunk EXCEPT !.data = r.data]
        /\ state' = IF r.ret < 0 THEN "ERROR" ELSE "CHECKSUM"
        /\ file' = IF r.ret < 0 THEN file ELSE Append(file, chunk')
    /\ UNCHANGED <<heap, gen, input, returned, pret>>

ParseData ==
    /\ UNCHANGED mvars
    /\ Running /\ state = "DATA"
    /\ LET r == read_data(input, pos, chunk.len, 0, chunk.data) IN
        /\ pos' = r.pos
        /\ chunk' = [chunk EXCEPT !.data = r.data]
        /\ state' = IF r.ret < 0 THEN "ERROR" ELSE "CHECKSUM"
    /\ UNCHANGED <<heap, gen, input, file, returned, pret>>

ParseChecksum ==
    /\ UNCHANGED mvars
    /\ Running /\ state = "CHECKSUM"
    /\ LET h == get_hex_token(input, pos, 2) IN
        /\ pos' = h.pos
        /\ IF h.ret < 0
           THEN state' = "ERROR" /\ chunk' = chunk /\ file' = file /\ heap' = heap
           ELSE /\ state' = "START_OF_LINE"
                /\ file' = Append(file, [chunk EXCEPT !.checksum = h.val % 256])
                /\ chunk' = NULL
                /\ heap' = Link(heap)
    /\ UNCHANGED <<gen, input, returned, pret>>

\* the state reached from STATE_END_OF_FILE: get_hex_token(fd, 1, &tmp),
\* then `ret < 0 || tmp != 0xff`
EofNext(inp, p) ==
    LET h == get_hex_token(inp, p, 1) IN
    [pos |-> h.pos, state |-> IF h.ret < 0 \/ h.val # 255 THEN "ERROR" ELSE "DONE"]

ParseEndOfFile ==
    /\ UNCHANGED mvars
    /\ Running /\ state = "END_OF_FILE"
    /\ LET n == EofNext(input, pos) IN
        /\ pos' = n.pos
        /\ state' = n.state
    /\ UNCHANGED <<heap, gen, input, chunk, file, returned, pret>>

\* after the loop: free(chunk) if set, return -1 unless STATE_DONE
ParseReturn ==
    /\ UNCHANGED mvars
    /\ ~returned /\ state \in {"ERROR", "DONE"}
    /\ returned' = TRUE
    /\ chunk' = NULL
    /\ heap' = IF chunk.alloc THEN Free(heap) ELSE heap
    /\ pret' = IF state # "DONE" THEN -1 ELSE 0
    /\ UNCHANGED <<gen, input, pos, state, file>>

(***************************************************************************)
(* The input family: up to MaxRecs data lines and an end-of-file line,     *)
(* optionally cut short or with one byte replaced.                         *)
(***************************************************************************)
HexChar(d) == IF d < 10 THEN 48 + d ELSE 65 + (d - 10)

Hex2(b) == <<HexChar(b \div 16), HexChar(b % 16)>>

Hex4(w) == Hex2(w \div 256) \o Hex2(w % 256)

RECURSIVE HexData(_)
HexData(d) == IF d = <<>> THEN <<>> ELSE Hex2(Head(d)) \o HexData(Tail(d))

\* ":LLAAAA00DD..DDCC\n"
DataLine(r) ==
    <<58>> \o Hex2(r.len) \o Hex4(r.addr) \o Hex2(0) \o HexData(r.data)
           \o Hex2(r.checksum) \o <<10>>

\* ":00000001PP"
EofLine(payload) == <<58>> \o Hex2(0) \o Hex4(0) \o Hex2(1) \o Hex2(payload)

RECURSIVE DataLines(_)
DataLines(rs) == IF rs = <<>> THEN <<>> ELSE DataLine(Head(rs)) \o DataLines(Tail(rs))

SampleRecs ==
    { Chunk(63488, 2, 92, <<171, 16>>),
      Chunk(43, 0, 248, <<>>) }

RecSeqs == UNION { [1..k -> SampleRecs] : k \in 0..MaxRecs }

\* payload of the end-of-file line; -1: the stream has no end-of-file line
EofPayloads == {255, 0, -1}

\* a replacement byte: lowercase hex, a non-hex letter, ':', space, and digits
MutChars == {97, 71, 58, 32, 48, 50, 70}

BaseStream(rs, eof) == DataLines(rs) \o (IF eof < 0 THEN <<>> ELSE EofLine(eof))

Build(g) ==
    LET b == BaseStream(g.recs, g.eof) IN
    IF g.mut = "none" THEN b
    ELSE IF g.mut = "trunc" THEN SubSeq(b, 1, g.at - 1)
    ELSE [b EXCEPT ![g.at] = g.c]

Gens ==
    UNION { LET n == Len(BaseStream(rs, eof)) IN
            {[recs |-> rs, eof |-> eof, mut |-> "none", at |-> 0, c |-> 0]}
            \cup {[recs |-> rs, eof |-> eof, mut |-> "trunc", at |-> k, c |-> 0] : k \in 1..n}
            \cup {[recs |-> rs, eof |-> eof, mut |-> "subst", at |-> k, c |-> c] :
                      k \in 1..n, c \in MutChars}
          : rs \in RecSeqs, eof \in EofPayloads }

NextParse ==
    \/ ParseStartOfLine
    \/ ParseLineLength
    \/ ParseAddress
    \/ ParseType
    \/ ParseData
    \/ ParseChecksum
    \/ ParseEndOfFile
    \/ ParseReturn


NoPages == [ok |-> {}, failed |-> {}]

NoOp == [op |-> "none", addr |-> 0, short |-> FALSE, ret |-> 0]

ParseIdle ==
    /\ gen = [recs |-> <<>>, eof |-> -1, mut |-> "none", at |-> 0, c |-> 0]
    /\ input = <<>>
    /\ pos = 0
    /\ state = "START_OF_LINE"
    /\ chunk = NULL
    /\ file = <<>>
    /\ returned = FALSE
    /\ pret = 0
    /\ heap = NoHeap

MainIdle ==
    /\ pc = "idle"
    /\ fdtab = [n \in 0..MaxFd |-> "free"]
    /\ fd = -1
    /\ i2c_fd = -1
    /\ ihex_file = Image(0, 1, "none", 0)
    /\ cur = 0
    /\ addr = 0
    /\ retry = 0
    /\ ret = 0
    /\ errno = 0
    /\ rbuf = <<>>
    /\ wbuf = <<>>
    /\ exitCode = -1
    /\ report = "none"
    /\ regLog = <<>>
    /\ ops = <<>>
    /\ cnt = [rd |-> 0, er |-> 0, wr |-> 0]
    /\ hist = <<>>
    /\ touched = {}
    /\ lastOp = NoOp
    /\ pageLog = NoPages

InitParse ==
    /\ MainIdle
    /\ gen \in Gens
    /\ input = Build(gen)
    /\ pos = 0
    /\ state = "START_OF_LINE"
    /\ chunk = NULL
    /\ file = <<>>
    /\ returned = FALSE
    /\ pret = 0
    /\ heap = NoHeap

SpecParse == InitParse /\ [][NextParse]_vars

InitParseFair ==
    /\ MainIdle
    /\ gen \in {g \in Gens : Len(g.recs) <= MaxFairRecs}
    /\ input = Build(gen)
    /\ pos = 0
    /\ state = "START_OF_LINE"
    /\ chunk = NULL
    /\ file = <<>>
    /\ returned = FALSE
    /\ pret = 0
    /\ heap = NoHeap

\* parse_ihex is one sequential loop: while an iteration is possible the
\* process takes it
SpecParseFair == InitParseFair /\ [][NextParse]_vars /\ WF_vars(NextParse)

(***************************************************************************)
(* Program constants.                                                      *)
(***************************************************************************)
ADM_PAGE_SIZE == 32

BaseAddr == 63488

RecordLen == 16

MaxRetry == 3

EIO == 5

(***************************************************************************)
(* The kernel's descriptor table.  open() returns the lowest descriptor    *)
(* number not currently open in the process; close() frees the number.     *)
(***************************************************************************)
FreeFds(tab) == {n \in DOMAIN tab : tab[n] = "free"}

LowestFree(tab) == CHOOSE n \in FreeFds(tab) : \A m \in FreeFds(tab) : n <= m

open_to(tab, what) == [fd |-> LowestFree(tab), tab |-> [tab EXCEPT ![LowestFree(tab)] = what]]

close_leak(tab, n) == tab

close(tab, n) == IF n \in DOMAIN tab THEN [tab EXCEPT ![n] = "free"] ELSE tab

\* what a write on descriptor n reaches
Target(tab, n) == IF n \in DOMAIN tab THEN tab[n] ELSE "free"

\* errno after a system call that returned r
Errno(e, r) == IF r < 0 THEN EIO ELSE e

(***************************************************************************)
(* The record lists parse_ihex can hand over.  A list is named by how it   *)
(* is built: n records of 16 bytes, contiguous from 0xF800 in steps of 16  *)
(* (addresses are unsigned short), optionally with record k of another     *)
(* length, or with an address gap from record k on, or with the last       *)
(* record at address k.  ihex_file holds that name; RecAddr, RecLen and     *)
(* RecData are the fields of its i-th record.                              *)
(***************************************************************************)
RecAddr(f, i) ==
    IF f.defect = "last" /\ i = f.n THEN f.k
    ELSE (BaseAddr + 16 * (i - 1) + (IF f.defect = "addr" /\ i >= f.k THEN 16 ELSE 0)) % 65536

RecLen(f, i) == IF f.defect = "len" /\ i = f.k THEN 8 ELSE 16

RecData(f, i) == [j \in 1..RecLen(f, i) |-> IF f.pat = 0 THEN 255 ELSE (i * 16 + j) % 256]

\* records of 16 bytes that fit between 0xF800 and the end of the 16-bit range
AddrRoom == (65536 - BaseAddr) \div RecordLen

\* addresses tried for the last record of a list longer than that
LastAddrs == {0, 16, 63488, 65520, 65535}

\* list lengths tried: the short ones, and the longest ones
Lengths == {n \in 0..MaxRecords : n <= 4 \/ n >= MaxRecords - 3}

Stores ==
    { Image(n, 1, "none", 0) : n \in Lengths }
    \cup { Image(n, 0, "none", 0) : n \in {2} }
    \cup UNION { { Image(n, 1, d, k) : d \in {"len", "addr"}, k \in {1, 2, n} }
                  : n \in Lengths \ {0} }
    \cup { Image(n, 1, "last", a) : n \in {m \in Lengths : m > AddrRoom}, a \in LastAddrs }

(***************************************************************************)
(* main, lines 379-414: open, parse, validate, open the bus.               *)
(***************************************************************************)
Exit(code) ==
    /\ pc' = "exit"
    /\ exitCode' = code

\* fd = open(argv[1], 0)
MainOpenFile ==
    /\ UNCHANGED <<pvars, pageLog>>
    /\ pc = "open_file"
    /\ \E ok \in BOOLEAN :
        IF ok
        THEN LET o == open_to(fdtab, "hex") IN
             /\ fd' = o.fd /\ fdtab' = o.tab /\ errno' = errno
             /\ pc' = "parse" /\ exitCode' = exitCode
        ELSE /\ fd' = -1 /\ fdtab' = fdtab /\ errno' = EIO
             /\ Exit(1)
    /\ UNCHANGED <<i2c_fd, ihex_file, cur, addr, retry, ret, rbuf, wbuf, report,
                   regLog, ops, cnt, hist, touched, lastOp>>

\* ret = parse_ihex(fd, &ihex_file); close(fd); if (ret) exit(1).
\* The call is taken at its interface: it returns -1, or 0 with one of Stores.
\* (As written parse_ihex never reaches STATE_DONE, see C1; main is examined for
\* every list the interface allows.)
MainParse ==
    /\ UNCHANGED <<pvars, pageLog>>
    /\ pc = "parse"
    /\ fdtab' = close(fdtab, fd)
    /\ \/ /\ ret' = -1
          /\ ihex_file' \in {Image(0, 1, "none", 0), Image(1, 1, "none", 0)}
          /\ cur' = cur
          /\ Exit(1)
       \/ /\ ret' = 0
          /\ ihex_file' \in Stores
          /\ cur' = IF ihex_file'.n = 0 THEN 0 ELSE 1
          /\ pc' = "validate" /\ exitCode' = exitCode
    /\ UNCHANGED <<fd, i2c_fd, addr, retry, errno, rbuf, wbuf, report,
                   regLog, ops, cnt, hist, touched, lastOp>>

\* chunk->next of the record at index i
NextOf(f, i) == IF i < f.n THEN i + 1 ELSE 0

\* the exit test of one iteration of the validation loop
Invalid_nolast(f, i, a) ==
    RecLen(f, i) # RecordLen \/ RecAddr(f, i) # a

Invalid(f, i, a) ==
    \/ RecLen(f, i) # RecordLen \/ RecAddr(f, i) # a
    \/ (RecAddr(f, i) % 32 = 0 /\ NextOf(f, i) = 0)

NextAddr_u16(a) == (a + 16) % 65536

\* addr += 0x10.  addr is an unsigned int (32 bits): it wraps at 2^32 only,
\* which a list of at most MaxRecords records, 0xF800 + 16 * MaxRecords, is
\* far from
NextAddr(a) == a + 16

\* one iteration of `for (chunk = ihex_file.first; chunk; chunk = chunk->next)`
MainValidate ==
    /\ UNCHANGED <<pvars, pageLog>>
    /\ pc = "validate"
    /\ IF cur = 0
       THEN /\ pc' = "open_i2c"
            /\ UNCHANGED <<cur, addr, exitCode>>
       ELSE IF Invalid(ihex_file, cur, addr)
            THEN Exit(1) /\ UNCHANGED <<cur, addr>>
            ELSE /\ addr' = NextAddr(addr)
                 /\ cur' = NextOf(ihex_file, cur)
                 /\ UNCHANGED <<pc, exitCode>>
    /\ UNCHANGED <<fdtab, fd, i2c_fd, ihex_file, retry, ret, errno, rbuf, wbuf, report,
                   regLog, ops, cnt, hist, touched, lastOp>>

\* i2c_fd = open("/dev/i2c-0", O_RDWR)
MainOpenI2c ==
    /\ UNCHANGED <<pvars, pageLog>>
    /\ pc = "open_i2c"
    /\ \E ok \in BOOLEAN :
        IF ok
        THEN LET o == open_to(fdtab, "i2c") IN
             /\ i2c_fd' = o.fd /\ fdtab' = o.tab /\ errno' = errno
             /\ pc' = "set_slave" /\ exitCode' = exitCode
        ELSE /\ i2c_fd' = -1 /\ fdtab' = fdtab /\ errno' = EIO
             /\ Exit(1)
    /\ UNCHANGED <<fd, ihex_file, cur, addr, retry, ret, rbuf, wbuf, report,
                   regLog, ops, cnt, hist, touched, lastOp>>

\* ret = ioctl(i2c_fd, I2C_SLAVE, 0x34)
MainSetSlave ==
    /\ UNCHANGED <<pvars, pageLog>>
    /\ pc = "set_slave"
    /\ \E r \in {0, -1} :
        /\ ret' = r
        /\ errno' = Errno(errno, r)
        /\ IF r < 0 THEN Exit(1) ELSE pc' = "setup" /\ exitCode' = exitCode
    /\ UNCHANGED <<fdtab, fd, i2c_fd, ihex_file, cur, addr, retry, rbuf, wbuf, report,
                   regLog, ops, cnt, hist, touched, lastOp>>

RegWrite(tab, n, b0, b1) == [fd |-> n, dev |-> Target(tab, n), bytes |-> <<b0, b1>>]

\* write [0x93, 0x01], write [0x90, 0x05]; the results are not looked at
MainSetup ==
    /\ UNCHANGED <<pvars, pageLog>>
    /\ pc = "setup"
    /\ regLog' = regLog \o <<RegWrite(fdtab, i2c_fd, 147, 1), RegWrite(fdtab, i2c_fd, 144, 5)>>
    /\ \E r \in {2, -1} : errno' = Errno(errno, r)
    /\ cur' = IF ihex_file.n = 0 THEN 0 ELSE 1
    /\ pc' = "loop"
    /\ UNCHANGED <<fdtab, fd, i2c_fd, ihex_file, addr, retry, ret, rbuf, wbuf, exitCode,
                   report, ops, cnt, hist, touched, lastOp>>


(***************************************************************************)
(* adm_eeprom_erase / read / write, as functions of errno and of what the  *)
(* system calls return.  Each returns -errno after a failed step: errno is *)
(* set by a call that returned -1 and left alone by a short transfer.      *)
(***************************************************************************)
\* results of write(fd, buf, 2), write(fd, buf, 1), write(fd, buf, 34), ioctl(I2C_RDWR)
Write2Results == {-1, 1, 2}

Write1Results == {-1, 0, 1}

Write34Results == {-1, 10, ADM_PAGE_SIZE + 2}

IoctlResults == {-1, 1, 2}

\* buf[0] after the transfer: the length byte of the block read
EchoResults == {ADM_PAGE_SIZE, 0}

adm_eeprom_erase(e, w1, w2) ==
    IF w1 # 2 THEN [ret |-> -Errno(e, w1), errno |-> Errno(e, w1)]
    ELSE IF w2 # 1 THEN [ret |-> -Errno(e, w2), errno |-> Errno(e, w2)]
    ELSE [ret |-> 0, errno |-> e]

adm_eeprom_read(e, w1, io, echo, content, rb) ==
    IF w1 # 2 THEN [ret |-> -Errno(e, w1), errno |-> Errno(e, w1), rbuf |-> rb]
    ELSE IF io # 2 THEN [ret |-> -Errno(e, io), errno |-> Errno(e, io), rbuf |-> rb]
    ELSE IF echo # ADM_PAGE_SIZE THEN [ret |-> -1, errno |-> e, rbuf |-> rb]
    ELSE [ret |-> 0, errno |-> e, rbuf |-> content]

adm_eeprom_write(e, w1, w2) ==
    IF w1 # 2 THEN [ret |-> -Errno(e, w1), errno |-> Errno(e, w1)]
    ELSE IF w2 < 0 THEN [ret |-> -Errno(e, w2), errno |-> Errno(e, w2)]
    ELSE [ret |-> 0, errno |-> e]

\* some transaction of the operation that was carried out moved less than asked
ShortErase(w1, w2) == w1 # 2 \/ (w1 = 2 /\ w2 # 1)

ShortRead(w1, io) == w1 # 2 \/ (w1 = 2 /\ io # 2)

ShortWrite(w1, w2) == w1 # 2 \/ (w1 = 2 /\ w2 # ADM_PAGE_SIZE + 2)

(***************************************************************************)
(* main, lines 427-446: the page loop.                                     *)
(***************************************************************************)
Reserved_short(a) ==
    \/ (a >= 63648 /\ a < 63744)
    \/ (a >= 63904 /\ a < 64000)
    \/ (a >= 64160 /\ a < 64256)
    \/ (a > 64416 /\ a < 64512)

\* 0xF8A0..0xF8FF, 0xF9A0..0xF9FF, 0xFAA0..0xFAFF, 0xFBA0..0xFBFF
Reserved(a) ==
    \/ (a >= 63648 /\ a < 63744)
    \/ (a >= 63904 /\ a < 64000)
    \/ (a >= 64160 /\ a < 64256)
    \/ (a >= 64416 /\ a < 64512)

NextNext_single(f, i) == NextOf(f, i)

\* chunk = chunk->next->next; -1 when chunk->next is NULL (the step faults)
NextNext(f, i) == IF NextOf(f, i) = 0 THEN -1 ELSE NextOf(f, NextOf(f, i))

PageData_swapped(f, i) == SubSeq(RecData(f, i + 1), 1, 16) \o SubSeq(RecData(f, i), 1, 16)

\* the 32 bytes program_chunk builds: chunk->data[0..15], chunk->next->data[0..15]
PageData(f, i) == SubSeq(RecData(f, i), 1, 16) \o SubSeq(RecData(f, i + 1), 1, 16)

Identical_inverted(a, b) == a # b

\* memcmp(a, b, ADM_PAGE_SIZE) == 0
Identical(a, b) == a = b

Other(page) == [page EXCEPT ![1] = (page[1] + 1) % 256]

\* what the device may return for the page, and what an unset rbuf may hold
Contents(f, i) ==
    IF NextOf(f, i) = 0 THEN {[j \in 1..ADM_PAGE_SIZE |-> 255]}
    ELSE {PageData(f, i), Other(PageData(f, i))}

\* a call that is not made has no result: fix the unused choices
ReadMade(w1, io, echo, content, rb) ==
    /\ (w1 # 2 => io = -1)
    /\ (w1 # 2 \/ io # 2 => echo = 0)
    /\ (w1 # 2 \/ io # 2 \/ echo # ADM_PAGE_SIZE => content = rb)

Fault ==
    /\ pc' = "segv"
    /\ exitCode' = 139

\* the loop's update expression, shared by `continue` and the end of the body
Advance ==
    IF NextNext(ihex_file, cur) < 0
    THEN Fault /\ cur' = cur
    ELSE cur' = NextNext(ihex_file, cur) /\ pc' = "loop" /\ exitCode' = exitCode

\* the loop test, the reserved-range test and `retry = 0`
MainLoopHead ==
    /\ UNCHANGED <<pvars, pageLog>>
    /\ pc = "loop"
    /\ IF cur = 0
       THEN /\ pc' = "teardown"
            /\ UNCHANGED <<cur, retry, exitCode, ops, cnt, hist>>
       ELSE IF Reserved(RecAddr(ihex_file, cur))
            THEN Advance /\ UNCHANGED <<retry, ops, cnt, hist>>
            ELSE /\ retry' = 0
                 /\ pc' = "attempt"
                 /\ ops' = <<>>
                 /\ cnt' = [rd |-> 0, er |-> 0, wr |-> 0]
                 /\ hist' = <<>>
                 /\ UNCHANGED <<cur, exitCode>>
    /\ UNCHANGED <<fdtab, fd, i2c_fd, ihex_file, addr, ret, errno, rbuf, wbuf, report,
                   regLog, touched, lastOp>>

MainAttempt_noread ==
    /\ UNCHANGED <<pvars, pageLog>>
    /\ pc = "attempt"
    /\ retry' = retry + 1
    /\ rbuf' \in Contents(ihex_file, cur)
    /\ wbuf' = <<>>
    /\ ops' = <<>>
    /\ pc' = (IF retry = 0 THEN "pc_read" ELSE "pc_erase")
    /\ UNCHANGED <<fdtab, fd, i2c_fd, ihex_file, cur, addr, ret, errno, exitCode, report,
                   regLog, cnt, hist, touched, lastOp>>

\* retry++; ret = program_chunk(i2c_fd, chunk): entry, rbuf and wbuf unset
MainAttempt ==
    /\ UNCHANGED <<pvars, pageLog>>
    /\ pc = "attempt"
    /\ retry' = retry + 1
    /\ rbuf' \in Contents(ihex_file, cur)
    /\ wbuf' = <<>>
    /\ ops' = <<>>
    /\ pc' = "pc_read"
    /\ UNCHANGED <<fdtab, fd, i2c_fd, ihex_file, cur, addr, ret, errno, exitCode, report,
                   regLog, cnt, hist, touched, lastOp>>

\* program_chunk returns r
Return(r, outcome) ==
    /\ ret' = r
    /\ hist' = Append(hist, outcome)
    /\ pc' = "loop_cond"

PageAddr == RecAddr(ihex_file, cur)

\* program_chunk, lines 297-321: read the page, build wbuf, compare
ChunkRead ==
    /\ UNCHANGED <<pvars, pageLog>>
    /\ pc = "pc_read"
    /\ \E w1 \in Write2Results, io \in IoctlResults, echo \in EchoResults,
          content \in Contents(ihex_file, cur) \cup {rbuf} :
        LET r == adm_eeprom_read(errno, w1, io, echo, content, rbuf) IN
        /\ ReadMade(w1, io, echo, content, rbuf)
        /\ errno' = r.errno
        /\ rbuf' = r.rbuf
        /\ lastOp' = [op |-> "read", addr |-> PageAddr, short |-> ShortRead(w1, io),
                      ret |-> r.ret]
        /\ IF r.ret # 0
           THEN Return(-1, "read_fail") /\ UNCHANGED <<wbuf, exitCode>>
           ELSE IF NextOf(ihex_file, cur) = 0
           THEN Fault /\ UNCHANGED <<wbuf, ret, hist>>
           ELSE /\ wbuf' = PageData(ihex_file, cur)
                /\ exitCode' = exitCode
                /\ IF Identical(wbuf', rbuf')
                   THEN Return(0, "same")
                   ELSE pc' = "pc_erase" /\ UNCHANGED <<ret, hist>>
    /\ ops' = Append(ops, "read")
    /\ cnt' = [cnt EXCEPT !.rd = @ + 1]
    /\ touched' = touched \cup {PageAddr}
    /\ UNCHANGED <<fdtab, fd, i2c_fd, ihex_file, cur, addr, retry, report, regLog>>

\* program_chunk, lines 323-332: erase, then sleep(1)
ChunkErase ==
    /\ UNCHANGED <<pvars, pageLog>>
    /\ pc = "pc_erase"
    /\ \E w1 \in Write2Results, w2 \in Write1Results :
        LET r == adm_eeprom_erase(errno, w1, w2) IN
        /\ (w1 # 2 => w2 = -1)
        /\ errno' = r.errno
        /\ lastOp' = [op |-> "erase", addr |-> PageAddr, short |-> ShortErase(w1, w2),
                      ret |-> r.ret]
        /\ IF r.ret # 0
           THEN Return(-1, "erase_fail") /\ ops' = Append(ops, "erase")
           ELSE /\ pc' = "pc_write"
                /\ ops' = ops \o <<"erase", "sleep">>
                /\ UNCHANGED <<ret, hist>>
    /\ cnt' = [cnt EXCEPT !.er = @ + 1]
    /\ touched' = touched \cup {PageAddr}
    /\ UNCHANGED <<fdtab, fd, i2c_fd, ihex_file, cur, addr, retry, rbuf, wbuf, exitCode,
                   report, regLog>>

\* program_chunk, lines 334-343: write wbuf, then sleep(1)
ChunkWrite ==
    /\ UNCHANGED <<pvars, pageLog>>
    /\ pc = "pc_write"
    /\ \E w1 \in Write2Results, w2 \in Write34Results :
        LET r == adm_eeprom_write(errno, w1, w2) IN
        /\ (w1 # 2 => w2 = -1)
        /\ errno' = r.errno
        /\ lastOp' = [op |-> "write", addr |-> PageAddr, short |-> ShortWrite(w1, w2),
                      ret |-> r.ret]
        /\ IF r.ret # 0
           THEN Return(-1, "write_fail") /\ ops' = Append(ops, "write")
           ELSE /\ pc' = "pc_verify"
                /\ ops' = ops \o <<"write", "sleep">>
                /\ UNCHANGED <<ret, hist>>
    /\ cnt' = [cnt EXCEPT !.wr = @ + 1]
    /\ touched' = touched \cup {PageAddr}
    /\ UNCHANGED <<fdtab, fd, i2c_fd, ihex_file, cur, addr, retry, rbuf, wbuf, exitCode,
                   report, regLog>>

\* program_chunk, lines 345-366: read back and compare
ChunkVerify ==
    /\ UNCHANGED <<pvars, pageLog>>
    /\ pc = "pc_verify"
    /\ \E w1 \in Write2Results, io \in IoctlResults, echo \in EchoResults,
          content \in Contents(ihex_file, cur) \cup {rbuf} :
        LET r == adm_eeprom_read(errno, w1, io, echo, content, rbuf) IN
        /\ ReadMade(w1, io, echo, content, rbuf)
        /\ errno' = r.errno
        /\ rbuf' = r.rbuf
        /\ lastOp' = [op |-> "read", addr |-> PageAddr, short |-> ShortRead(w1, io),
                      ret |-> r.ret]
        /\ IF r.ret # 0 THEN Return(-1, "verify_io")
           ELSE IF ~Identical(rbuf', wbuf) THEN Return(-1, "verify_mismatch")
           ELSE Return(0, "ok")
    /\ ops' = Append(ops, "verify")
    /\ cnt' = [cnt EXCEPT !.rd = @ + 1]
    /\ touched' = touched \cup {PageAddr}
    /\ UNCHANGED <<fdtab, fd, i2c_fd, ihex_file, cur, addr, retry, wbuf, exitCode,
                   report, regLog>>

\* the record of the pages: a page whose last attempt succeeded, a page whose
\* third attempt failed
Logged(log, page, h) ==
    IF h[Len(h)] \in {"same", "ok"} THEN [log EXCEPT !.ok = @ \cup {page}]
    ELSE IF Len(h) >= MaxRetry THEN [log EXCEPT !.failed = @ \cup {page}]
    ELSE log

\* what follows an attempt that returned r after `tries` attempts
AfterAttempt_nobreak(r, tries) ==
    IF r # 0 /\ tries < MaxRetry THEN "again"
    ELSE "next"

AfterAttempt_four(r, tries) ==
    IF r # 0 /\ tries <= MaxRetry THEN "again"
    ELSE IF r # 0 THEN "break"
    ELSE "next"

AfterAttempt(r, tries) ==
    IF r # 0 /\ tries < MaxRetry THEN "again"
    ELSE IF r # 0 THEN "break"
    ELSE "next"

\* `while (ret != 0 && retry < 3)`, `if (ret != 0) break`, the loop update
MainLoopCond ==
    /\ UNCHANGED pvars
    /\ pc = "loop_cond"
    /\ pageLog' = Logged(pageLog, PageAddr, hist)
    /\ LET a == AfterAttempt(ret, retry) IN
       IF a = "again" THEN pc' = "attempt" /\ UNCHANGED <<cur, exitCode>>
       ELSE IF a = "break" THEN pc' = "teardown" /\ UNCHANGED <<cur, exitCode>>
       ELSE Advance
    /\ UNCHANGED <<fdtab, fd, i2c_fd, ihex_file, addr, retry, ret, errno, rbuf, wbuf,
                   report, regLog, ops, cnt, hist, touched, lastOp>>

(***************************************************************************)
(* main, lines 448-464: back to normal mode, the closing message, return.  *)
(***************************************************************************)
\* buf = [0x90, 0x00]; write(fd, buf, 2)
MainTeardown ==
    /\ UNCHANGED <<pvars, pageLog>>
    /\ pc = "teardown"
    /\ regLog' = Append(regLog, RegWrite(fdtab, fd, 144, 0))
    /\ \E r \in {2, -1} : errno' = Errno(errno, r)
    /\ pc' = "report"
    /\ UNCHANGED <<fdtab, fd, i2c_fd, ihex_file, cur, addr, retry, ret, rbuf, wbuf,
                   exitCode, report, ops, cnt, hist, touched, lastOp>>

Message_ok(r) == "success"

\* the closing message, lines 453-462
Message(r) == IF r = 0 THEN "success" ELSE "failed"

\* the status main returns after the closing message
ExitStatus(r) == 0

MainReport ==
    /\ UNCHANGED <<pvars, pageLog>>
    /\ pc = "report"
    /\ report' = Message(ret)
    /\ exitCode' = ExitStatus(ret)
    /\ pc' = "done"
    /\ UNCHANGED <<fdtab, fd, i2c_fd, ihex_file, cur, addr, retry, ret, errno, rbuf, wbuf,
                   regLog, ops, cnt, hist, touched, lastOp>>

\* descriptors the process may inherit open
InheritedFds == { {0, 1, 2}, {1, 2, 3} }

InitMain ==
    /\ ParseIdle
    /\ pc = "open_file"
    /\ \E S \in InheritedFds : fdtab = [n \in 0..MaxFd |-> IF n \in S THEN "std" ELSE "free"]
    /\ fd = -1
    /\ i2c_fd = -1
    /\ ihex_file = Image(0, 1, "none", 0)
    /\ cur = 0
    /\ addr = BaseAddr
    /\ retry = 0
    /\ ret = 0
    /\ errno = 0
    /\ rbuf = <<>>
    /\ wbuf = <<>>
    /\ exitCode = -1
    /\ report = "none"
    /\ regLog = <<>>
    /\ ops = <<>>
    /\ cnt = [rd |-> 0, er |-> 0, wr |-> 0]
    /\ hist = <<>>
    /\ touched = {}
    /\ lastOp = NoOp
    /\ pageLog = NoPages

NextMain ==
    \/ MainOpenFile
    \/ MainParse
    \/ MainValidate
    \/ MainOpenI2c
    \/ MainSetSlave
    \/ MainSetup
    \/ MainLoopHead
    \/ MainAttempt
    \/ ChunkRead
    \/ ChunkErase
    \/ ChunkWrite
    \/ ChunkVerify
    \/ MainLoopCond
    \/ MainTeardown
    \/ MainReport

SpecMain == InitMain /\ [][NextMain]_vars

(***************************************************************************)
(*                               Properties                                *)
(***************************************************************************)

\* ---- helpers of the properties ----
BaseOf(g) == BaseStream(g.recs, g.eof)

\* the stream is N well-formed data lines and the end-of-file line ":00000001FF"
WellFormed(g) == g.mut = "none" /\ g.eof = 255

\* a byte outside 0-9, A-F stands where the unmodified stream has a hex digit
BadDigit(g) ==
    /\ g.mut = "subst"
    /\ ~(IsDigit(g.c) \/ IsUpperHex(g.c))
    /\ BaseOf(g)[g.at] # 58 /\ BaseOf(g)[g.at] # 10

\* the stream stops before an end-of-file line is complete
Truncated(g) == (g.mut = "trunc" /\ g.eof >= 0) \/ (g.mut # "subst" /\ g.eof < 0)

\* the end-of-file line carries a payload other than FF
BadEofPayload(g) == g.mut = "none" /\ g.eof >= 0 /\ g.eof # 255

\* C1: a well-formed stream of N data records and the end-of-file record
\* (payload FF) parses to Done, returns 0, and the list holds exactly the N
\* records in file order with their address, length and payload.
C1_RoundTrip ==
    (returned /\ WellFormed(gen)) =>
        (state = "DONE" /\ pret = 0 /\ file = gen.recs)

\* C7: parse_ihex returns failure for a stream with a non-hex byte (lowercase
\* included) in a digit position, which it rejects no later than at that byte,
\* for a stream that ends before an end-of-file record is complete, and for an
\* end-of-file record whose payload is not FF.
C7_MalformedRejected ==
    /\ (returned /\ (BadDigit(gen) \/ Truncated(gen) \/ BadEofPayload(gen)))
          => (pret = -1 /\ state = "ERROR")
    /\ (returned /\ BadDigit(gen)) => pos <= gen.at

\* C7 witness: a lowercase hex letter in a digit position was read and the
\* parse returned failure at that byte.
C7_Witness ==
    /\ returned /\ pret = -1
    /\ BadDigit(gen) /\ gen.c = 97 /\ pos = gen.at
    /\ Len(gen.recs) = 2 /\ Len(file) = 1

\* ---- the page loop ----
SetupIssued ==
    /\ Len(regLog) >= 2
    /\ regLog[1].dev = "i2c" /\ regLog[1].bytes = <<147, 1>>
    /\ regLog[2].dev = "i2c" /\ regLog[2].bytes = <<144, 5>>

RestoreIssued ==
    \E i \in 3..Len(regLog) : regLog[i].dev = "i2c" /\ regLog[i].bytes = <<144, 0>>

Ended == pc \in {"done", "exit", "segv"}

InPage == pc \in {"attempt", "pc_read", "pc_erase", "pc_write", "pc_verify", "loop_cond"}

Failure(o) == o \notin {"same", "ok"}

\* the page in progress has failed three attempts
Exhausted == Len(hist) = 3 /\ Failure(hist[3])

\* the four reserved ranges, as the claim lists them
InReservedRange(a) ==
    \/ a \in 63648..63743
    \/ a \in 63904..63999
    \/ a \in 64160..64255
    \/ a \in 64416..64511

\* every record has length 16, the addresses are 0xF800, 0xF810, ... and the
\* last address is not 32-byte aligned
WellStructured(f) ==
    /\ \A i \in 1..f.n : RecLen(f, i) = 16 /\ RecAddr(f, i) = 63488 + 16 * (i - 1)
    /\ f.n > 0 => RecAddr(f, f.n) % 32 # 0

DeviceUntouched ==
    /\ i2c_fd = -1
    /\ \A n \in DOMAIN fdtab : fdtab[n] # "i2c"
    /\ regLog = <<>>
    /\ touched = {}
    /\ lastOp = NoOp

\* C2: once the two setup writes have been issued, the write [0x90, 0x00]
\* has reached the I2C device by the time the page loop has been left and the
\* program ends, whether the loop ended in success or in failure.
C2_TeardownReachesDevice ==
    (SetupIssued /\ (Ended \/ pc = "report")) => (RestoreIssued /\ pc # "segv")

\* C2 witness: the run ended after a page failed all its attempts and the
\* restore write was made on the descriptor of the I2C device.
C2_Witness ==
    /\ pc = "done" /\ Exhausted /\ ret # 0
    /\ SetupIssued /\ RestoreIssued
    /\ regLog[3].fd = i2c_fd

\* C3: a list that breaks a structural rule makes the run exit with status 1
\* during validation, with nothing done on the I2C device: no open, no
\* address select, no setup write, no page operation.
C3_ValidationFirst ==
    (pc \notin {"open_file", "parse"} /\ ret = 0 /\ ~WellStructured(ihex_file)) =>
        /\ DeviceUntouched
        /\ pc \in {"validate", "exit"}
        /\ pc = "validate" => cur # 0
        /\ pc = "exit" => exitCode = 1

\* C3 witness: the run exited on a list whose last record is page aligned,
\* all other rules holding, the device untouched.
C3_Witness ==
    /\ pc = "exit" /\ ret = 0 /\ DeviceUntouched
    /\ ihex_file.defect = "none" /\ ihex_file.n = 3
    /\ cur = 3

\* C4: a page is attempted until an attempt succeeds or three were made:
\* never more than three, every attempt before the last one failed, the
\* attempt counter equals the attempts made, and the loop leaves a page only
\* after a success or after the third attempt.
C4_BoundedRetry ==
    /\ retry <= 3 /\ Len(hist) <= 3
    /\ \A i \in 1..(Len(hist) - 1) : Failure(hist[i])
    /\ pc = "loop_cond" => (Len(hist) = retry /\ (ret = 0 <=> ~Failure(hist[retry])))
    /\ (pc = "loop" /\ hist # <<>>) => ~Failure(hist[Len(hist)])
    /\ (pc \in {"teardown", "report", "done"} /\ hist # <<>>) =>
            (~Failure(hist[Len(hist)]) \/ Len(hist) = 3)

\* C4 witness: attempts 1 and 2 failed verification, attempt 3 verified, and
\* the page succeeded after exactly three attempts.
C4_Witness ==
    /\ pc = "loop_cond"
    /\ hist = <<"verify_mismatch", "verify_mismatch", "ok">>
    /\ retry = 3 /\ ret = 0

\* C5: from the moment a page has failed its third attempt no page operation
\* is issued any more, the loop does not move to a later page, and the run
\* ends with the failure message.
C5_AbortOnExhaustion ==
    [][Exhausted =>
        /\ touched' = touched /\ cnt' = cnt /\ lastOp' = lastOp /\ ops' = ops
        /\ cur' = cur
        /\ pc' \in {"teardown", "report", "done"}
        /\ pc' = "done" => report' = "failed"]_vars

\* C5 witness: the run ended reported as failed after a page was exhausted,
\* with a later, non-reserved page of the list never operated on.
C5_Witness ==
    /\ pc = "done" /\ Exhausted /\ report = "failed"
    /\ cur + 2 <= ihex_file.n
    /\ ~InReservedRange(RecAddr(ihex_file, cur + 2))
    /\ RecAddr(ihex_file, cur + 2) \notin touched
    /\ RecAddr(ihex_file, cur) \in touched

\* C6: the exit status is 0 only on full success; it is nonzero after a
\* parse failure, a validation failure, a device-open failure and after a
\* page that exhausted its retries.
C6_ExitStatus ==
    /\ pc = "exit" => exitCode # 0
    /\ pc = "done" => (exitCode = 0 <=> report = "success")
    /\ (pc = "done" /\ Exhausted) => exitCode # 0

\* C8: when the first read of a page succeeds and returns the target bytes
\* (low payload then high payload), the attempt returns success with one read,
\* no erase and no write, and it is the page's only attempt.
C8_IdempotentSkip ==
    (/\ InPage /\ cnt.rd = 1
     /\ lastOp.op = "read" /\ lastOp.ret = 0
     /\ rbuf = RecData(ihex_file, cur) \o RecData(ihex_file, cur + 1)) =>
        /\ pc = "loop_cond" /\ ret = 0 /\ retry = 1
        /\ cnt.er = 0 /\ cnt.wr = 0 /\ ops = <<"read">>
        /\ AfterAttempt(ret, retry) = "next"

\* C8 witness: a page whose first read returned the target bytes finished
\* with one read and nothing else.
C8_Witness ==
    /\ pc = "loop_cond" /\ hist = <<"same">> /\ cnt = [rd |-> 1, er |-> 0, wr |-> 0]
    /\ lastOp.op = "read" /\ ~lastOp.short /\ lastOp.ret = 0
    /\ rbuf = RecData(ihex_file, cur) \o RecData(ihex_file, cur + 1)

\* C9: no device operation is ever issued for a page in a reserved range and
\* no attempt is made on it; the loop steps over it to the next page without
\* touching ret, retry or the bus.
C9_ReservedSkip ==
    /\ [](/\ \A a \in touched : ~InReservedRange(a)
          /\ lastOp.op # "none" => ~InReservedRange(lastOp.addr)
          /\ InPage => ~InReservedRange(RecAddr(ihex_file, cur)))
    /\ [][(pc = "loop" /\ cur # 0 /\ InReservedRange(RecAddr(ihex_file, cur))) =>
            /\ pc' = "loop"
            /\ cur' = (IF cur + 2 <= ihex_file.n THEN cur + 2 ELSE 0)
            /\ ret' = ret /\ retry' = retry /\ hist' = hist
            /\ touched' = touched /\ cnt' = cnt /\ lastOp' = lastOp
            /\ regLog' = regLog]_vars

\* C9 witness: the loop is past the last reserved range, at page 0xFC00, with
\* no reserved page operated on and the run not failed.
C9_Witness ==
    /\ pc = "pc_read" /\ RecAddr(ihex_file, cur) = 64512
    /\ ret = 0
    /\ 63616 \in touched /\ 64384 \in touched
    /\ \A a \in touched : ~InReservedRange(a)

\* C10: a device operation that had a transaction move fewer bytes than
\* asked, or fail, reports failure.
C10_IoFailureDetected ==
    (lastOp.op # "none" /\ lastOp.short) => lastOp.ret # 0

\* ---- the sequence of one attempt ----
ProgramSequence == <<"read", "erase", "sleep", "write", "sleep", "verify">>

IsPrefix(s, t) == Len(s) <= Len(t) /\ s = SubSeq(t, 1, Len(s))

IsProgramOp(o) == o \in {"erase", "write", "verify"}

\* the attempt that just returned follows one that ended in a verify mismatch
AfterMismatch ==
    /\ pc = "loop_cond"
    /\ Len(hist) >= 2
    /\ hist[Len(hist) - 1] = "verify_mismatch"

\* C11: when an attempt on a page ended with a verify mismatch and fewer than
\* three attempts had been made, the next attempt on that page issues an
\* erase, then a write, then a verify read-back of that page (an attempt cut
\* short by an operation that reported failure set aside).
C11_RetryRepeatsAll ==
    (AfterMismatch /\ hist[Len(hist)] \in {"same", "verify_mismatch", "ok"}) =>
        /\ SelectSeq(ops, IsProgramOp) = <<"erase", "write", "verify">>
        /\ lastOp.addr = PageAddr

\* C11, as the code has it: the attempt after a verify mismatch is a whole
\* program_chunk call on the same page.  It starts with a read; it returns
\* success with that read alone when the read reports success and gives the
\* target bytes, and otherwise goes on to erase, write and verify in that
\* order, ending at the first operation that reports failure.
C11_RetryRestartsAttempt ==
    AfterMismatch =>
        /\ retry = Len(hist) /\ retry <= MaxRetry
        /\ lastOp.addr = PageAddr
        /\ ops # <<>> /\ ops[1] = "read"
        /\ hist[retry] \in {"same", "read_fail"} <=> ops = <<"read">>
        /\ hist[retry] = "same" => (rbuf = PageData(ihex_file, cur) /\ ret = 0)
        /\ hist[retry] = "erase_fail" <=> ops = <<"read", "erase">>
        /\ hist[retry] = "write_fail" <=> ops = <<"read", "erase", "sleep", "write">>
        /\ hist[retry] \in {"verify_io", "verify_mismatch", "ok"} <=> ops = ProgramSequence
        /\ hist[retry] = "ok" => (rbuf = PageData(ihex_file, cur) /\ ret = 0)

\* C11 witness: the first attempt ended in a verify mismatch and the second
\* one read, erased, wrote and verified the same page.
C11_Witness ==
    /\ pc = "loop_cond"
    /\ hist = <<"verify_mismatch", "ok">>
    /\ ops = ProgramSequence
    /\ cnt = [rd |-> 4, er |-> 2, wr |-> 2]

\* C12: inside one attempt the operations come in the order read, erase,
\* settle delay, write, settle delay, verify read; no operation is issued
\* after one that failed (a transfer that failed or moved fewer bytes than
\* asked); and every attempt counts toward the page's three.
C12_OrderAndStop ==
    /\ [](/\ IsPrefix(ops, ProgramSequence)
          /\ pc = "loop_cond" => (retry = Len(hist) /\ retry <= MaxRetry))
    /\ [][(ops # <<>> /\ Len(ops') > Len(ops)) => ~lastOp.short]_vars

\* ---- the record store while parsing ----
\* offset, in the unmodified stream, of the last checksum digit of data line k
LineEnd(g, k) == Len(DataLines(SubSeq(g.recs, 1, k))) - 1

\* data lines of the unmodified stream that lie whole within its first p bytes
Complete(g, p) == Cardinality({k \in 1..Len(g.recs) : LineEnd(g, k) <= p})

\* the bytes consumed so far are bytes of the unmodified stream
ConsumedUnmodified == gen.mut # "subst" \/ pos < gen.at

NotSpace(c) == c \notin {10, 13, 9, 32}

Strip(s) == SelectSeq(s, NotSpace)

Min(a, b) == IF a <= b THEN a ELSE b

\* C13: in every state reached while parsing, the store holds exactly the
\* data records whose lines have been consumed through their checksum
\* digits, in file order, with the address, length, payload and checksum the
\* line encodes; the record of a line that hit an error or the end of the
\* stream before its checksum was read is not in the store.
C13_NoPartialCommit ==
    /\ ConsumedUnmodified => file = SubSeq(gen.recs, 1, Complete(gen, pos))
    /\ BadDigit(gen) => file = SubSeq(gen.recs, 1, Complete(gen, Min(pos, gen.at - 1)))
    /\ IsPrefix(Strip(DataLines(file)), Strip(SubSeq(input, 1, pos)))
    /\ \A i \in 1..Len(file) : file[i].alloc /\ Len(file[i].data) = file[i].len

\* C13 witness: the first line is in the store and the parse has returned on
\* a second line that ended inside its payload.
C13_Witness ==
    /\ returned /\ state = "ERROR"
    /\ gen.mut = "trunc" /\ Len(gen.recs) = 2
    /\ gen.recs[1] = gen.recs[2] /\ gen.recs[2].len = 2
    /\ pos = LineEnd(gen, 2) - 3
    /\ file = <<gen.recs[1]>>

\* ---- the type digits ----
HexChars == (48..57) \cup (65..70)

\* the next two bytes are hex digits of a value other than 0 and 1
UndefinedTypeAhead ==
    /\ pos + 2 <= Len(input)
    /\ input[pos + 1] \in HexChars /\ input[pos + 2] \in HexChars
    /\ ~(input[pos + 1] = 48 /\ input[pos + 2] \in {48, 49})

\* C14: when the two type digits decode to a value other than 0 or 1, the
\* step taken in the Type state leaves the parser in Type: it moves neither to
\* Data or EndOfFile nor to Error, returns nothing, and adds no record.
C14_UndefinedTypeStays ==
    [][(Running /\ state = "TYPE" /\ UndefinedTypeAhead) =>
            /\ state' = "TYPE"
            /\ file' = file /\ chunk' = chunk
            /\ ~returned']_vars

\* C14 witness: the type digits of the first line, one of them replaced so
\* that they read as an undefined type, have been consumed and the parser is
\* still in Type.
C14_Witness ==
    /\ state = "TYPE" /\ ~returned /\ chunk.alloc
    /\ gen.mut = "subst" /\ gen.at \in {8, 9} /\ gen.c = 50
    /\ pos = 9
    /\ input[8] \in HexChars /\ input[9] \in HexChars
    /\ ~(input[8] = 48 /\ input[9] \in {48, 49})

\* ---- the addresses of a validated list ----
Validated ==
    pc \in {"open_i2c", "set_slave", "setup", "loop", "attempt", "pc_read", "pc_erase",
            "pc_write", "pc_verify", "loop_cond", "teardown", "report", "done", "segv"}

\* C19: the expected address starts at 0xF800 and grows by 16 per record
\* without being cut to 16 bits, while record addresses are 16 bits wide; a
\* list that passes validation has at most 128 records, all at addresses in
\* 0xF800..0xFFF0 (looked at when validation has just passed, the list not
\* changing afterwards); a list with a 129th record is rejected, at that
\* record at the latest, whatever the address of that record.
C19_AddressRange ==
    /\ pc = "open_file" => addr = 63488
    /\ (pc = "validate" /\ cur # 0) => addr = 63488 + 16 * (cur - 1)
    /\ (pc = "validate" /\ cur = 0) => addr = 63488 + 16 * ihex_file.n
    /\ (pc = "validate" /\ cur = 1) =>
          \A i \in 1..ihex_file.n : RecAddr(ihex_file, i) \in 0..65535
    /\ Validated => ihex_file.n <= 128
    /\ pc = "open_i2c" =>
          \A i \in 1..ihex_file.n : RecAddr(ihex_file, i) \in 63488..65520
    /\ (Validated /\ cur # 0) => RecAddr(ihex_file, cur) \in 63488..65520
    /\ (ihex_file.n >= 129 /\ pc \notin {"open_file", "parse"}) =>
          /\ pc \in {"validate", "exit"}
          /\ cur \in 1..129
          /\ pc = "exit" => exitCode = 1

\* C19 witness: a list of 129 contiguous records, the 129th at address 0x0000
\* where the 16-bit address wraps, was rejected at that record with the
\* expected address at 0x10000.
C19_Witness ==
    /\ pc = "exit" /\ exitCode = 1
    /\ ihex_file.n = 129 /\ RecAddr(ihex_file, 129) = 0
    /\ \A i \in 1..128 : RecAddr(ihex_file, i) = 63488 + 16 * (i - 1) /\ RecLen(ihex_file, i) = 16
    /\ cur = 129 /\ addr = 65536

\* ---- the pages of the programming loop ----
InLoop == pc = "loop" \/ InPage

\* C15: every page the programming loop visits is made of two consecutive
\* records low and high, high.address = low.address + 16 and low.address a
\* multiple of 32; the 32 target bytes are low's payload followed by high's;
\* pages are visited in ascending address order, and the loop starts at the
\* first record and steps two records at a time, so that every record is in
\* exactly one page.
C15_PagePairing ==
    /\ [](/\ (InLoop /\ cur # 0) =>
                /\ cur % 2 = 1 /\ cur + 1 <= ihex_file.n
                /\ RecAddr(ihex_file, cur) % 32 = 0
                /\ RecAddr(ihex_file, cur + 1) = RecAddr(ihex_file, cur) + 16
                /\ RecLen(ihex_file, cur) = 16 /\ RecLen(ihex_file, cur + 1) = 16
                /\ \A a \in touched : a <= RecAddr(ihex_file, cur)
          /\ (pc \in {"pc_erase", "pc_write", "pc_verify", "loop_cond"} /\ wbuf # <<>>) =>
                /\ Len(wbuf) = 32
                /\ wbuf = RecData(ihex_file, cur) \o RecData(ihex_file, cur + 1)
          /\ lastOp.op # "none" => lastOp.addr % 32 = 0)
    /\ [][/\ pc = "setup" => cur' = (IF ihex_file.n = 0 THEN 0 ELSE 1)
          /\ (InLoop /\ cur' # cur) =>
                /\ pc' = "loop"
                /\ cur' = (IF cur + 1 = ihex_file.n THEN 0 ELSE cur + 2)
                /\ cur' # 0 => RecAddr(ihex_file, cur') = RecAddr(ihex_file, cur) + 32]_vars

\* C15 witness: the second page of a list, records 3 and 4 at 0xF820 and
\* 0xF830, is about to be erased after the first page was operated on.
C15_Witness ==
    /\ pc = "pc_erase" /\ cur = 3
    /\ RecAddr(ihex_file, 3) = 63520 /\ RecAddr(ihex_file, 4) = 63536
    /\ wbuf = RecData(ihex_file, 3) \o RecData(ihex_file, 4)
    /\ touched = {63488, 63520}

\* C17: a list that passes validation has an even number of records; at
\* every iteration of the programming loop the visited record has a
\* successor, and two records ahead is a record or exactly the end of the
\* list; the loop never dereferences a null pointer.
C17_NoDanglingPair ==
    /\ Validated => ihex_file.n % 2 = 0
    /\ (InLoop /\ cur # 0) =>
          /\ cur + 1 <= ihex_file.n
          /\ NextOf(ihex_file, cur) = cur + 1
          /\ (cur + 2 <= ihex_file.n \/ cur + 2 = ihex_file.n + 1)
          /\ NextNext(ihex_file, cur) = (IF cur + 2 <= ihex_file.n THEN cur + 2 ELSE 0)
    /\ pc # "segv"

\* C17 witness: the loop stepped from the last pair of a four-record list
\* exactly onto the end of the list.
C17_Witness ==
    /\ pc = "loop" /\ cur = 0
    /\ ihex_file.n = 4
    /\ touched = {63488, 63520}
    /\ lastOp.addr = RecAddr(ihex_file, 3)

\* ---- the result of the run ----
\* the pages of the list: the odd records
PageStarts(f) == {i \in 1..f.n : i % 2 = 1}

\* C16: after the page loop the run reports success if and only if every
\* non-reserved page of the list ended with a successful attempt (the read at
\* the start of the attempt gave the target bytes, or the read-back after
\* erase and write did); it reports failure if and only if some page failed
\* three attempts.
C16_AggregateResult ==
    /\ pc = "done" =>
          /\ report \in {"success", "failed"}
          /\ report = "success" <=>
                \A i \in PageStarts(ihex_file) :
                    InReservedRange(RecAddr(ihex_file, i)) \/ RecAddr(ihex_file, i) \in pageLog.ok
          /\ report = "failed" <=> pageLog.failed # {}
    /\ \A a \in pageLog.ok \cup pageLog.failed : ~InReservedRange(a) /\ a \in touched
    /\ pageLog.ok \cap pageLog.failed = {}
    /\ (pc = "loop_cond" /\ hist[Len(hist)] = "same") =>
          (ops = <<"read">> /\ lastOp.ret = 0 /\ rbuf = PageData(ihex_file, cur))
    /\ (pc = "loop_cond" /\ hist[Len(hist)] = "ok") =>
          (ops = ProgramSequence /\ lastOp.ret = 0 /\ rbuf = PageData(ihex_file, cur))

\* C16 witness: a four-record list whose first page verified after erase and
\* write and whose second page was found identical, reported as success.
C16_Witness ==
    /\ pc = "done" /\ report = "success"
    /\ ihex_file.n = 4
    /\ pageLog = [ok |-> {63488, 63520}, failed |-> {}]
    /\ cnt = [rd |-> 1, er |-> 0, wr |-> 0]
    /\ 63488 \in touched

\* ---- the record buffers ----
Buffers == 1..heap.next

\* allocated, not in the list, not freed
InProgress(b) == ~InList(heap, b) /\ b \notin heap.freed

\* C20: at every point of parsing at most one record buffer is in progress,
\* and it is the one `chunk` points to; a buffer is allocated only when none
\* is in progress; when parse_ihex has returned every buffer it allocated is
\* in the list exactly once or has been freed, never both: the buffer of the
\* end-of-file line and the buffer of a line that hit an error are freed and
\* not in the list.
C20_BufferOwnership ==
    /\ [](/\ Cardinality({b \in Buffers : InProgress(b)}) <= 1
          /\ \A b \in Buffers : InProgress(b) => (heap.cur = b /\ chunk.alloc)
          /\ chunk.alloc <=> heap.cur # 0
          /\ heap.cur # 0 => InProgress(heap.cur)
          /\ heap.lost = {}
          /\ Len(heap.stored) = Len(file)
          /\ \A i, j \in 1..Len(heap.stored) : heap.stored[i] = heap.stored[j] => i = j
          /\ \A b \in heap.freed : ~InList(heap, b)
          /\ returned =>
                /\ \A b \in Buffers : InList(heap, b) \/ b \in heap.freed
                /\ (state = "ERROR" /\ heap.next > Len(file)) => heap.freed = {heap.next}
                /\ heap.next <= Len(file) + 1)
    /\ [][heap'.next # heap.next =>
                /\ heap.cur = 0 /\ ~chunk.alloc
                /\ \A b \in Buffers : ~InProgress(b)
                /\ heap'.next = heap.next + 1 /\ heap'.cur = heap'.next]_vars

\* C20 witness: the parse returned on an error in the second line; the
\* first line's buffer is in the list and the second line's buffer was freed.
C20_Witness ==
    /\ returned /\ state = "ERROR"
    /\ heap = [next |-> 2, cur |-> 0, stored |-> <<1>>, freed |-> {2}, lost |-> {}]
    /\ Len(file) = 1

\* ---- termination of the parser ----
\* C18: on every stream of the family, with record types other than 0 and 1
\* and records of length 0 among them, parse_ihex reaches Done or Error and
\* returns; when the stream is exhausted in a state that is neither, the
\* parser ends in Error.
C18_ParserTerminates ==
    /\ <>(state \in {"DONE", "ERROR"} /\ returned)
    /\ (Running /\ pos = Len(input)) ~> (state = "ERROR" /\ returned /\ pret = -1)

\* C18 witness: a stream with a record of length 0 and type digits that
\* decode to 2 was read to its end and the parse returned in Error.
C18_Witness ==
    /\ returned /\ state = "ERROR" /\ pos = Len(input)
    /\ gen.mut = "subst" /\ gen.c = 50 /\ gen.at = 9
    /\ Len(gen.recs) = 1 /\ gen.recs[1].len = 0 /\ gen.eof < 0

====
